---- MODULE Spec2Model ----
(***************************************************************************)
(* Model of stitching.base.SeleniumRegressionTestCase: the matrix-driven   *)
(* capture-and-compare loop of assertScreenshot, the generator             *)
(* _yield_drivers, the artifact path construction and the file system the  *)
(* artifacts live in.                                                      *)
(*                                                                         *)
(* A string is a sequence of indivisible tokens ("chrome", "/", "--" ...); *)
(* str.format and '/'.join are concatenations of such sequences, so two    *)
(* paths are the same string exactly when the sequences are equal.         *)
(***************************************************************************)
EXTENDS Integers, Sequences, FiniteSets, TLC

VARIABLES
    displays,                  \* cls._displays: the display keys, in iteration order
    browsers,                  \* cls._browsers: the browser keys, in iteration order
    browser_settings,          \* cls._browsers: browser key -> its section, as parsed
    ini,                       \* the configuration file setUpClass reads
    loaded,                    \* setUpClass: "no" before it ran, then "ok" or "error"
    make_baseline_screenshots, \* cls._make_baseline_screenshots
    threshold,                 \* self._THRESHOLD (0 unless the test case overrides it)
    dirs,                      \* file system: the directories that exist
    files,                     \* file system: location -> content of the files that exist
    sessions,                  \* every NeedleRemote session ever requested, in order
    pc,                        \* position of the executing assertScreenshot
    request,                   \* (selector, path) of the call in progress or last ended
    idx,                       \* index in the matrix of the cell in progress
    screenshot,                \* local: element.get_screenshot()
    baseline_screenshot,       \* local: Image.open(baseline_file)
    trace,                     \* what the call in progress (or last ended) did, in order
    raised,                    \* the exception that ended the last call, or NoExc
    ncalls,                    \* number of assertScreenshot calls started
    keysA,                     \* path resolution: (browser_name, display_name) of one cell
    keysB,                     \* path resolution: (browser_name, display_name) of another
    resolved,                  \* path resolution: the two paths, once computed
    tupleA,                    \* path resolution: (kind, browser, display, page, selector)
    tupleB                     \* path resolution: another such tuple

vars == <<displays, browsers, browser_settings, ini, loaded, make_baseline_screenshots, threshold, dirs, files,
          sessions, pc, request, idx, screenshot, baseline_screenshot, trace,
          raised, ncalls, keysA, keysB, resolved, tupleA, tupleB>>

-----------------------------------------------------------------------------
(* Bounds *)

MaxCalls == 2
MaxThreshold == 1
MaxKeyLen == 2
MaxNameLen == 2

-----------------------------------------------------------------------------
(* Strings *)

SLASH == "/"

RECURSIVE Join(_, _)
\* sep.join(parts)
Join(parts, sep) ==
    IF Len(parts) = 0 THEN <<>>
    ELSE IF Len(parts) = 1 THEN parts[1]
    ELSE parts[1] \o <<sep>> \o Join(Tail(parts), sep)

RECURSIVE Components(_, _)
\* The components the operating system sees in a path: the path split on '/',
\* empty components dropped ("a//b" and "a/b/" name the same locations as
\* "a/b").  cur is the component being read.
Components(s, cur) ==
    IF Len(s) = 0 THEN (IF Len(cur) = 0 THEN <<>> ELSE <<cur>>)
    ELSE IF Head(s) = SLASH
         THEN (IF Len(cur) = 0 THEN <<>> ELSE <<cur>>) \o Components(Tail(s), <<>>)
         ELSE Components(Tail(s), Append(cur, Head(s)))

Location(s) == Components(s, <<>>)

Parent(loc) == SubSeq(loc, 1, Len(loc) - 1)

Prefixes(loc) == {SubSeq(loc, 1, n) : n \in 1..Len(loc)}

-----------------------------------------------------------------------------
(* Class constants and configuration values *)

BASELINE_FOLDER_NAME == <<"baseline">>
ERROR_FOLDER_NAME == <<"errors">>

CHROME == <<"chrome">>
CHROME_MOBILE == <<"chrome", "_mobile">>
FIREFOX == <<"firefox">>

\* The browser kinds _yield_drivers builds options for.
SupportedBrowsers == {CHROME, CHROME_MOBILE}

DisplayKeys == <<<<"xs">>, <<"md">>>>

screenshot_dir == <<"shots">>
base_url == <<"http:", "/", "/", "app">>

\* browser_settings['mobile']
Mobile(browser_name) == browser_settings[browser_name].mobile

\* The sections of a configuration file whose every field is usable; the
\* chrome_mobile section is the one that asks for mobile emulation.
UsableSettings(keys) ==
    [b \in {keys[i] : i \in DOMAIN keys} |->
        [options_module |-> "ok", mobile |-> (b = CHROME_MOBILE)]]

\* A configuration file the model does not look into.
NoIni == <<>>

\* The configurations setUpClass may have loaded: the lists display_keys and
\* browser_keys of the [selenium] section, in the order the matrix is walked.
Configs ==
    { <<DisplayKeys[1]>> } \X { <<CHROME>>, <<CHROME, CHROME_MOBILE>>,
                                <<CHROME, FIREFOX>>, <<FIREFOX, CHROME>> }
    \cup { <<DisplayKeys[1], DisplayKeys[2]>> } \X { <<CHROME>> }

\* What the calling tests pass to assertScreenshot.
Selectors == {<<"#q">>}
Paths == {<<"/", "home">>, <<"admin", "/", "users">>}

-----------------------------------------------------------------------------
(* Images *)

\* A raster: its size (ImageDiff asserts equal sizes) and its pixels.
Images == {[size |-> 1, pix |-> 0], [size |-> 1, pix |-> 1], [size |-> 2, pix |-> 0]}

\* Content of a file Image.open cannot read.
Corrupt == [size |-> 0, pix |-> 0]

\* ImageDiff(a, b) raises AssertionError when the images cannot be compared.
Incompatible(a, b) == a.size # b.size

\* diff.get_distance(): the collaborator's scalar, 0 for identical images.
get_distance(a, b) == a.pix - b.pix

abs(n) == IF n < 0 THEN -n ELSE n

-----------------------------------------------------------------------------
(* Paths *)

\* A join that puts the display before the browser.
make_screenshot_path_display_first(folder, browser_name, display_name) ==
    Join(<<screenshot_dir, folder, display_name, browser_name>>, SLASH)

\* A join that leaves the display out.
make_screenshot_path_browser_only(folder, browser_name, display_name) ==
    Join(<<screenshot_dir, folder, browser_name>>, SLASH)

\* _make_screenshot_path
make_screenshot_path(folder, browser_name, display_name) ==
    Join(<<screenshot_dir, folder, browser_name, display_name>>, SLASH)

\* '{}/{}--{}.png'.format(directory, path, selector)
screenshot_file(directory, path, selector) ==
    directory \o <<SLASH>> \o path \o <<"--">> \o selector \o <<".png">>

\* _make_url
make_url(path) == base_url \o <<SLASH>> \o path

-----------------------------------------------------------------------------
(* File system *)

\* os.path.exists
exists(p) == Location(p) \in dirs \/ Location(p) \in DOMAIN files

\* os.makedirs: the directory and every missing intermediate one.
makedirs(p) == dirs \cup Prefixes(Location(p))

\* open(file, 'wb') succeeds: the parent directory exists and the name is free
\* or names a file.
Writable(f) == Parent(Location(f)) \in dirs /\ Location(f) \notin dirs

\* Image.save: the file is created or overwritten.
save(img, f) ==
    [loc \in DOMAIN files \cup {Location(f)} |->
        IF loc = Location(f) THEN img ELSE files[loc]]

\* A reader that takes every file that is present for an image.
ReadableIfPresent(f) == Location(f) \in DOMAIN files

\* Image.open(file).convert('RGB') succeeds.
Readable(f) == Location(f) \in DOMAIN files /\ files[Location(f)] # Corrupt

-----------------------------------------------------------------------------
(* The matrix *)

\* A pairing of the i-th display with the i-th browser (zip, not product).
ProductZip(ds, bs) ==
    [i \in 1..(IF Len(ds) < Len(bs) THEN Len(ds) ELSE Len(bs)) |->
        [display_name |-> ds[i], browser_name |-> bs[i]]]

\* itertools.product(displays, browsers): displays outer, browsers inner.
Product(ds, bs) ==
    [i \in 1..(Len(ds) * Len(bs)) |->
        [display_name |-> ds[((i - 1) \div Len(bs)) + 1],
         browser_name |-> bs[((i - 1) % Len(bs)) + 1]]]

Matrix == Product(displays, browsers)

display_name == Matrix[idx].display_name
browser_name == Matrix[idx].browser_name

baseline_path == make_screenshot_path(BASELINE_FOLDER_NAME, browser_name, display_name)
baseline_file == screenshot_file(baseline_path, request.path, request.selector)
\* An error directory that is the baseline directory.
error_path_in_baseline ==
    make_screenshot_path(BASELINE_FOLDER_NAME, browser_name, display_name)

error_path == make_screenshot_path(ERROR_FOLDER_NAME, browser_name, display_name)
error_file == screenshot_file(error_path, request.path, request.selector)

-----------------------------------------------------------------------------
(* Exceptions *)

NoExc == [type |-> "none", str |-> <<>>, num |-> 0]

\* exceptions.py: each exception with the value its message is formatted from,
\* a string (str) or a number (num).
InvalidBrowserException(name) ==
    [type |-> "InvalidBrowserException", str |-> name, num |-> 0]
AssertScreenshotException(text, distance) ==
    [type |-> "AssertScreenshotException", str |-> text, num |-> distance]
MissingBaselineScreenshotException ==
    [type |-> "MissingBaselineScreenshotException", str |-> <<>>, num |-> 0]
\* Raised by the collaborators and not caught by assertScreenshot.
NoSuchElementException == [type |-> "NoSuchElementException", str |-> <<>>, num |-> 0]
IOError(f) == [type |-> "IOError", str |-> f, num |-> 0]
KeyError(k) == [type |-> "KeyError", str |-> k, num |-> 0]
ImportError == [type |-> "ImportError", str |-> <<>>, num |-> 0]
\* Raised by ConfigParser and by the converters while setUpClass parses.
NoSectionError == [type |-> "NoSectionError", str |-> <<>>, num |-> 0]
NoOptionError == [type |-> "NoOptionError", str |-> <<>>, num |-> 0]
ValueError == [type |-> "ValueError", str |-> <<>>, num |-> 0]
OSError(d) == [type |-> "OSError", str |-> d, num |-> 0]

Event(op) == [op |-> op, cell |-> idx]

\* A loop that records the failure of a cell and goes on with the next one.
RaiseAndContinue(exc, events) ==
    /\ pc' = "next"
    /\ raised' = exc
    /\ trace' = trace \o events

\* An exception leaves assertScreenshot: nothing catches it, the loop and the
\* suspended generator are abandoned.
Raise(exc, events) ==
    /\ pc' = "idle"
    /\ raised' = exc
    /\ trace' = trace \o events

-----------------------------------------------------------------------------
(* Initial state: setUpClass has loaded a configuration; the screenshot     *)
(* directory holds whatever earlier runs and the developer left in it.      *)

SupportedCells(m) == {i \in DOMAIN m : m[i].browser_name \in SupportedBrowsers}

\* The baseline files of the given cells and pages.
BaselineFiles(m, cells, paths) ==
    {screenshot_file(
        make_screenshot_path(BASELINE_FOLDER_NAME, m[i].browser_name, m[i].display_name),
        p, sel) : i \in cells, p \in paths, sel \in Selectors}

PriorContents == {[size |-> 1, pix |-> 0], [size |-> 1, pix |-> 1], Corrupt}

\* The arguments of a resolution nobody has asked for.
NoTuple ==
    [folder |-> <<>>, browser_name |-> <<>>, display_name |-> <<>>,
     path |-> <<>>, selector |-> <<>>]

InitCall ==
    /\ sessions = <<>>
    /\ pc = "idle"
    /\ request = [selector |-> <<>>, path |-> <<>>]
    /\ idx = 0
    /\ screenshot = Corrupt
    /\ baseline_screenshot = Corrupt
    /\ trace = <<>>
    /\ raised = NoExc
    /\ ncalls = 0

Init ==
    /\ \E c \in Configs : displays = c[1] /\ browsers = c[2]
    /\ browser_settings = UsableSettings(browsers)
    /\ ini = NoIni
    /\ loaded = "ok"
    /\ make_baseline_screenshots \in BOOLEAN
    /\ threshold \in 0..MaxThreshold
    /\ \E cells \in SUBSET SupportedCells(Matrix), paths \in SUBSET Paths,
          content \in PriorContents :
            LET fs == BaselineFiles(Matrix, cells, paths) IN
            /\ files = [loc \in {Location(f) : f \in fs} |-> content]
            /\ dirs = UNION {Prefixes(Parent(Location(f))) : f \in fs}
    /\ InitCall
    /\ keysA = <<CHROME, DisplayKeys[1]>>
    /\ keysB = <<CHROME, DisplayKeys[1]>>
    /\ resolved = <<>>
    /\ tupleA = NoTuple
    /\ tupleB = NoTuple

-----------------------------------------------------------------------------
(* assertScreenshot, step by step *)

config == <<displays, browsers, browser_settings, ini, loaded,
            make_baseline_screenshots, threshold>>
fs == <<dirs, files>>
locals == <<screenshot, baseline_screenshot>>
pathvars == <<keysA, keysB, resolved, tupleA, tupleB>>

OpenSessions == {i \in DOMAIN sessions : sessions[i].closes = 0}

\* A test calls self.assertScreenshot(selector, path).
Call(selector, path) ==
    /\ pc = "idle"
    /\ loaded = "ok"
    /\ ncalls < MaxCalls
    /\ ncalls' = ncalls + 1
    /\ request' = [selector |-> selector, path |-> path]
    /\ idx' = 0
    /\ trace' = <<>>
    /\ raised' = NoExc
    /\ pc' = "next"
    /\ UNCHANGED <<config, fs, sessions, locals, pathvars>>

\* import_module(browser_settings['options_module']).Options() succeeds.
OptionsUsable(name) == browser_settings[name].options_module = "ok"

\* The for loop resumes _yield_drivers, which has a supported cell next:
\* options are built, the session is requested and its window is set.
YieldDriver ==
    /\ pc = "next"
    /\ idx < Len(Matrix)
    /\ Matrix[idx + 1].browser_name \in SupportedBrowsers
    /\ OptionsUsable(Matrix[idx + 1].browser_name)
    /\ idx' = idx + 1
    /\ sessions' = Append(sessions,
            [call |-> ncalls, cell |-> idx + 1, closes |-> 0,
             window |-> IF Mobile(Matrix[idx + 1].browser_name)
                        THEN "maximized" ELSE "sized"])
    /\ trace' = Append(trace, [op |-> "open", cell |-> idx + 1])
    /\ pc' = "get"
    /\ UNCHANGED <<config, fs, request, locals, raised, ncalls, pathvars>>

\* The for loop resumes _yield_drivers, which has a supported cell next, but
\* _make_chrome_options fails: KeyError when the section has no options_module,
\* ImportError when it names no module.  No session has been requested.
YieldOptionsError ==
    /\ pc = "next"
    /\ idx < Len(Matrix)
    /\ Matrix[idx + 1].browser_name \in SupportedBrowsers
    /\ ~OptionsUsable(Matrix[idx + 1].browser_name)
    /\ idx' = idx + 1
    /\ Raise(IF browser_settings[Matrix[idx + 1].browser_name].options_module = "missing"
             THEN KeyError(<<"options_module">>) ELSE ImportError,
             <<[op |-> "options", cell |-> idx + 1]>>)
    /\ UNCHANGED <<config, fs, sessions, request, locals, ncalls, pathvars>>

\* A generator that requests the session first and looks at the browser name after.
YieldInvalidAfterSession ==
    /\ pc = "next"
    /\ idx < Len(Matrix)
    /\ Matrix[idx + 1].browser_name \notin SupportedBrowsers
    /\ idx' = idx + 1
    /\ sessions' = Append(sessions,
            [call |-> ncalls, cell |-> idx + 1, closes |-> 0, window |-> "sized"])
    /\ Raise(InvalidBrowserException(Matrix[idx + 1].browser_name),
             <<[op |-> "invalid", cell |-> idx + 1]>>)
    /\ UNCHANGED <<config, fs, request, locals, ncalls, pathvars>>

\* The for loop resumes _yield_drivers, whose next cell names a browser outside
\* ('chrome', 'chrome_mobile'): InvalidBrowserException(browser_name).
YieldInvalid ==
    /\ pc = "next"
    /\ idx < Len(Matrix)
    /\ Matrix[idx + 1].browser_name \notin SupportedBrowsers
    /\ idx' = idx + 1
    /\ Raise(InvalidBrowserException(Matrix[idx + 1].browser_name),
             <<[op |-> "invalid", cell |-> idx + 1]>>)
    /\ UNCHANGED <<config, fs, sessions, request, locals, ncalls, pathvars>>

\* The generator is exhausted: the loop ends and assertScreenshot returns.
Return ==
    /\ pc = "next"
    /\ idx = Len(Matrix)
    /\ pc' = "idle"
    /\ UNCHANGED <<config, fs, sessions, request, idx, locals, trace, raised,
                   ncalls, pathvars>>

\* A capture that shoots the page when the selector matches nothing, and
\* reports the missing element afterwards.
CaptureThenFail ==
    /\ pc = "get"
    /\ \E img \in Images :
         /\ screenshot' = img
         /\ UNCHANGED baseline_screenshot
         /\ \/ Raise(NoSuchElementException, <<Event("get"), Event("screenshot")>>)
            \/ /\ trace' = trace \o <<Event("get"), Event("screenshot")>>
               /\ pc' = "exists_baseline"
               /\ UNCHANGED raised
    /\ UNCHANGED <<config, fs, sessions, request, idx, ncalls, pathvars>>

\* driver.get(url); find_element_by_css_selector; sleep; get_screenshot.
\* The page decides whether the selector matches and what is rendered.
Capture ==
    /\ pc = "get"
    /\ \/ /\ Raise(NoSuchElementException, <<Event("get")>>)
          /\ UNCHANGED locals
       \/ \E img \in Images :
            /\ screenshot' = img
            /\ trace' = trace \o <<Event("get"), Event("screenshot")>>
            /\ pc' = "exists_baseline"
            /\ UNCHANGED <<baseline_screenshot, raised>>
    /\ UNCHANGED <<config, fs, sessions, request, idx, ncalls, pathvars>>

\* if not os.path.exists(baseline_path)
ExistsBaseline ==
    /\ pc = "exists_baseline"
    /\ pc' = IF exists(baseline_path) THEN "mode" ELSE "makedirs_baseline"
    /\ UNCHANGED <<config, fs, sessions, request, idx, locals, trace, raised,
                   ncalls, pathvars>>

\* os.makedirs(baseline_path): OSError when the directory exists by now.
MakedirsBaseline ==
    /\ pc = "makedirs_baseline"
    /\ IF exists(baseline_path)
       THEN Raise(OSError(baseline_path), <<>>) /\ UNCHANGED fs
       ELSE /\ dirs' = makedirs(baseline_path)
            /\ trace' = Append(trace, Event("makedirs_baseline"))
            /\ pc' = "mode"
            /\ UNCHANGED <<files, raised>>
    /\ UNCHANGED <<config, sessions, request, idx, locals, ncalls, pathvars>>

\* make_baseline_screenshots is true: screenshot.save(baseline_file).
SaveBaseline ==
    /\ pc = "mode"
    /\ make_baseline_screenshots
    /\ IF Writable(baseline_file)
       THEN /\ files' = save(screenshot, baseline_file)
            /\ trace' = Append(trace, Event("save_baseline"))
            /\ pc' = "close"
            /\ UNCHANGED raised
       ELSE Raise(IOError(baseline_file), <<>>) /\ UNCHANGED files
    /\ UNCHANGED <<config, dirs, sessions, request, idx, locals, ncalls, pathvars>>

\* make_baseline_screenshots is false: Image.open(baseline_file), any IOError
\* becoming MissingBaselineScreenshotException.
OpenBaseline ==
    /\ pc = "mode"
    /\ ~make_baseline_screenshots
    /\ IF Readable(baseline_file)
       THEN /\ baseline_screenshot' = files[Location(baseline_file)]
            /\ trace' = Append(trace, Event("open_baseline"))
            /\ pc' = "exists_error"
            /\ UNCHANGED raised
       ELSE Raise(MissingBaselineScreenshotException, <<>>)
            /\ UNCHANGED baseline_screenshot
    /\ UNCHANGED <<config, fs, sessions, request, idx, screenshot, ncalls, pathvars>>

\* if not os.path.exists(error_path)
ExistsError ==
    /\ pc = "exists_error"
    /\ pc' = IF exists(error_path) THEN "diff" ELSE "makedirs_error"
    /\ UNCHANGED <<config, fs, sessions, request, idx, locals, trace, raised,
                   ncalls, pathvars>>

\* os.makedirs(error_path)
MakedirsError ==
    /\ pc = "makedirs_error"
    /\ IF exists(error_path)
       THEN Raise(OSError(error_path), <<>>) /\ UNCHANGED fs
       ELSE /\ dirs' = makedirs(error_path)
            /\ trace' = Append(trace, Event("makedirs_error"))
            /\ pc' = "diff"
            /\ UNCHANGED <<files, raised>>
    /\ UNCHANGED <<config, sessions, request, idx, locals, ncalls, pathvars>>

\* screenshot.save(error_file); raise AssertScreenshotException(...): the
\* exception is raised only if the save returns, otherwise the save's IOError is.
SaveErrorAndRaise(exc, events) ==
    IF Writable(error_file)
    THEN /\ files' = save(screenshot, error_file)
         /\ Raise(exc, events \o <<Event("save_error")>>)
    ELSE /\ Raise(IOError(error_file), events)
         /\ UNCHANGED files

\* A comparison that fails a distance equal to the threshold.
ExceedsOrEqual(distance) == distance >= threshold

\* distance > self._THRESHOLD
Exceeds(distance) == distance > threshold

\* ImageDiff(screenshot, baseline_screenshot), abs(diff.get_distance()) and the
\* comparison with _THRESHOLD.
Diff ==
    /\ pc = "diff"
    /\ IF Incompatible(screenshot, baseline_screenshot)
       THEN SaveErrorAndRaise(AssertScreenshotException(error_file, 0),
                              <<Event("diff")>>)
       ELSE LET distance == abs(get_distance(screenshot, baseline_screenshot)) IN
            IF Exceeds(distance)
            THEN SaveErrorAndRaise(AssertScreenshotException(<<>>, distance),
                                   <<Event("diff"), Event("distance")>>)
            ELSE /\ trace' = trace \o <<Event("diff"), Event("distance")>>
                 /\ pc' = "close"
                 /\ UNCHANGED <<files, raised>>
    /\ UNCHANGED <<config, dirs, sessions, request, idx, locals, ncalls, pathvars>>

\* A loop body that ends without driver.close().
SkipClose ==
    /\ pc = "close"
    /\ pc' = "next"
    /\ UNCHANGED <<config, fs, sessions, request, idx, locals, trace, raised,
                   ncalls, pathvars>>

\* driver.close(), the last statement of the loop body.
Close ==
    /\ pc = "close"
    /\ sessions' = [sessions EXCEPT ![Len(sessions)].closes = @ + 1]
    /\ trace' = Append(trace, Event("close"))
    /\ pc' = "next"
    /\ UNCHANGED <<config, fs, request, idx, locals, raised, ncalls, pathvars>>

Next ==
    \/ \E selector \in Selectors, path \in Paths : Call(selector, path)
    \/ YieldDriver
    \/ YieldInvalid
    \/ Return
    \/ Capture
    \/ ExistsBaseline
    \/ MakedirsBaseline
    \/ SaveBaseline
    \/ OpenBaseline
    \/ ExistsError
    \/ MakedirsError
    \/ Diff
    \/ Close

Spec == Init /\ [][Next]_vars

-----------------------------------------------------------------------------
(* Configuration loading: setUpClass reads the configuration file, then the *)
(* test methods call assertScreenshot.  A field of the file is "ok",        *)
(* "missing", or "bad" (present, but its converter rejects it); a boolean   *)
(* field that parses is "true" or "false".                                 *)

Field == {"ok", "bad", "missing"}
BoolField == {"true", "false", "bad", "missing"}

\* [selenium:browser_chrome], or no such section.
BrowserSections ==
    {[present |-> FALSE, options_module |-> "missing", arguments |-> "missing",
      mobile |-> "missing"]}
    \cup [present : {TRUE}, options_module : Field,
          arguments : {"ok", "missing"}, mobile : BoolField]

\* [selenium:display_xs], or no such section.
DisplaySections ==
    {[present |-> FALSE, width |-> "missing", height |-> "missing",
      pixel_ratio |-> "missing"]}
    \cup [present : {TRUE}, width : Field, height : Field, pixel_ratio : Field]

\* The files: [selenium] names one browser key and one display key.
IniFiles ==
    [globals : {"ok", "missing"},
     make_baseline_screenshots : BoolField,
     browser_keys : {<<CHROME>>},
     display_keys : {<<DisplayKeys[1]>>},
     browser : BrowserSections,
     display : DisplaySections]

\* What asbool and int/float do with a field that is there.
Convert(field) == IF field = "bad" THEN ValueError ELSE NoExc

\* section_dict[name] followed by its converter.
FromSection(field, name) ==
    IF field = "missing" THEN KeyError(<<name>>) ELSE Convert(field)

\* The first of a list of outcomes that is an exception.
RECURSIVE FirstError(_)
FirstError(outcomes) ==
    IF outcomes = <<>> THEN NoExc
    ELSE IF Head(outcomes) # NoExc THEN Head(outcomes)
    ELSE FirstError(Tail(outcomes))

\* _make_browers for the one browser key.
make_browers(f) ==
    IF ~f.browser.present THEN NoSectionError
    ELSE FirstError(<<FromSection(IF f.browser.arguments = "missing"
                                  THEN "missing" ELSE "ok", "arguments"),
                      FromSection(f.browser.mobile, "mobile")>>)

\* _make_displays for the one display key.
make_displays(f) ==
    IF ~f.display.present THEN NoSectionError
    ELSE FirstError(<<FromSection(f.display.width, "width"),
                      FromSection(f.display.height, "height"),
                      FromSection(f.display.pixel_ratio, "pixel_ratio")>>)

\* _parse_selenium_config: the exception it ends with, NoExc when it returns.
parse_selenium_config(f) ==
    FirstError(<<IF f.globals = "missing" THEN NoOptionError ELSE NoExc,
                 IF f.make_baseline_screenshots = "missing" THEN NoOptionError
                 ELSE Convert(f.make_baseline_screenshots),
                 make_browers(f),
                 make_displays(f)>>)

ConfigInit ==
    /\ ini \in IniFiles
    /\ loaded = "no"
    /\ displays = <<>>
    /\ browsers = <<>>
    /\ browser_settings = <<>>
    /\ make_baseline_screenshots = FALSE
    /\ threshold = 0
    /\ dirs = {<<>>, Location(screenshot_dir)}
    /\ files = <<>>
    /\ keysA = <<>>
    /\ keysB = <<>>
    /\ resolved = <<>>
    /\ tupleA = NoTuple
    /\ tupleB = NoTuple
    /\ InitCall

\* setUpClass: parse the file; on success the class attributes are set.
SetUpClass ==
    /\ loaded = "no"
    /\ IF parse_selenium_config(ini) # NoExc
       THEN /\ loaded' = "error"
            /\ raised' = parse_selenium_config(ini)
            /\ UNCHANGED <<displays, browsers, browser_settings,
                           make_baseline_screenshots>>
       ELSE /\ loaded' = "ok"
            /\ displays' = ini.display_keys
            /\ browsers' = ini.browser_keys
            /\ browser_settings' =
                   [b \in {CHROME} |->
                       [options_module |-> ini.browser.options_module,
                        mobile |-> (ini.browser.mobile = "true")]]
            /\ make_baseline_screenshots' = (ini.make_baseline_screenshots = "true")
            /\ UNCHANGED raised
    /\ UNCHANGED <<ini, threshold, fs, sessions, pc, request, idx, locals,
                   trace, ncalls, pathvars>>

\* With one chrome cell and an empty screenshot directory, the steps of a
\* call that can happen.
ConfigNext ==
    \/ SetUpClass
    \/ \E selector \in Selectors, path \in Paths : Call(selector, path)
    \/ YieldDriver
    \/ YieldOptionsError
    \/ Return
    \/ Capture
    \/ ExistsBaseline
    \/ MakedirsBaseline
    \/ SaveBaseline
    \/ OpenBaseline
    \/ Close

ConfigSpec == ConfigInit /\ [][ConfigNext]_vars

-----------------------------------------------------------------------------
(* Round trip: the suite is run against an empty screenshot directory and   *)
(* run again after make_baseline_screenshots was edited in the              *)
(* configuration file.  The application under test is stable: the selector  *)
(* matches in every cell and a cell renders the same raster every time.     *)

\* What the element looks like in cell i.
Rendered(i) ==
    IF i % 2 = 1 THEN [size |-> 1, pix |-> 1] ELSE [size |-> 2, pix |-> 0]

RoundTripInit ==
    /\ \E c \in Configs : displays = c[1] /\ browsers = c[2]
    /\ browser_settings = UsableSettings(browsers)
    /\ ini = NoIni
    /\ loaded = "ok"
    /\ make_baseline_screenshots \in BOOLEAN
    /\ threshold \in 0..MaxThreshold
    /\ dirs = {<<>>, Location(screenshot_dir)}
    /\ files = <<>>
    /\ InitCall
    /\ keysA = <<CHROME, DisplayKeys[1]>>
    /\ keysB = <<CHROME, DisplayKeys[1]>>
    /\ resolved = <<>>
    /\ tupleA = NoTuple
    /\ tupleB = NoTuple

\* Between two runs of the suite the developer flips make_baseline_screenshots;
\* setUpClass of the next run reads the new value, in a new process that has
\* made no call yet.
Rerun ==
    /\ pc = "idle"
    /\ make_baseline_screenshots' = ~make_baseline_screenshots
    /\ request' = [selector |-> <<>>, path |-> <<>>]
    /\ idx' = 0
    /\ trace' = <<>>
    /\ raised' = NoExc
    /\ UNCHANGED <<displays, browsers, browser_settings, ini, loaded, threshold,
                   fs, sessions, pc, locals, ncalls, pathvars>>

\* The capture step against the stable application.
StableCapture ==
    /\ Capture
    /\ raised' = NoExc
    /\ screenshot' = Rendered(idx)

RoundTripNext ==
    \/ Rerun
    \/ \E selector \in Selectors, path \in Paths : Call(selector, path)
    \/ YieldDriver
    \/ YieldInvalid
    \/ Return
    \/ StableCapture
    \/ ExistsBaseline
    \/ MakedirsBaseline
    \/ SaveBaseline
    \/ OpenBaseline
    \/ ExistsError
    \/ MakedirsError
    \/ Diff
    \/ Close

RoundTripSpec == RoundTripInit /\ [][RoundTripNext]_vars

-----------------------------------------------------------------------------
(* Two executions on one screenshot directory: a second run of the suite,   *)
(* with the same configuration, works on the same tree.  Of the second      *)
(* execution the first one can observe the directories it creates; each     *)
(* action below is the second execution's check and creation together, at   *)
(* any point between two steps of the first.                                *)

\* The other execution: if not os.path.exists(baseline_path): os.makedirs(...)
OtherMakedirsBaseline ==
    /\ \E i \in SupportedCells(Matrix) :
         LET d == make_screenshot_path(BASELINE_FOLDER_NAME,
                      Matrix[i].browser_name, Matrix[i].display_name) IN
         /\ ~exists(d)
         /\ dirs' = makedirs(d)
    /\ UNCHANGED <<config, files, sessions, pc, request, idx, locals, trace,
                   raised, ncalls, pathvars>>

\* The other execution, in comparison mode and past reading a baseline of the
\* cell: if not os.path.exists(error_path): os.makedirs(error_path)
OtherMakedirsError ==
    /\ ~make_baseline_screenshots
    /\ \E i \in SupportedCells(Matrix) :
         LET d == make_screenshot_path(ERROR_FOLDER_NAME,
                      Matrix[i].browser_name, Matrix[i].display_name) IN
         /\ \E path \in Paths, selector \in Selectors :
                Readable(screenshot_file(
                            make_screenshot_path(BASELINE_FOLDER_NAME,
                                Matrix[i].browser_name, Matrix[i].display_name),
                            path, selector))
         /\ ~exists(d)
         /\ dirs' = makedirs(d)
    /\ UNCHANGED <<config, files, sessions, pc, request, idx, locals, trace,
                   raised, ncalls, pathvars>>

RaceNext ==
    \/ Next
    \/ OtherMakedirsBaseline
    \/ OtherMakedirsError

RaceSpec == Init /\ [][RaceNext]_vars

-----------------------------------------------------------------------------
(* Path resolution on its own: the keys of two cells, resolved for the same *)
(* kind, page path and selector.  The browser keys are those whose cells    *)
(* reach path resolution; a display key is any string the display_keys list *)
(* and a section name can hold, the separator included.                     *)

KeyAlphabet == {"a", SLASH}

\* A key names something: it is not made of separators alone.
Keys ==
    {k \in UNION {[1..n -> KeyAlphabet] : n \in 1..MaxKeyLen} :
        \E i \in DOMAIN k : k[i] # SLASH}

CellKeys == SupportedBrowsers \X Keys

PathInit ==
    /\ displays = <<DisplayKeys[1]>>
    /\ browsers = <<CHROME>>
    /\ browser_settings = UsableSettings(browsers)
    /\ ini = NoIni
    /\ loaded = "ok"
    /\ make_baseline_screenshots = TRUE
    /\ threshold = 0
    /\ dirs = {}
    /\ files = <<>>
    /\ InitCall
    /\ keysA \in CellKeys
    /\ keysB \in CellKeys
    /\ resolved = <<>>
    /\ tupleA = NoTuple
    /\ tupleB = NoTuple

\* The artifact file assertScreenshot builds for a cell: _make_screenshot_path
\* and the format of the file name.
artifact_file(folder, keys, path, selector) ==
    screenshot_file(make_screenshot_path(folder, keys[1], keys[2]), path, selector)

Resolve(folder, path, selector) ==
    /\ resolved = <<>>
    /\ resolved' = <<artifact_file(folder, keysA, path, selector),
                     artifact_file(folder, keysB, path, selector)>>
    /\ UNCHANGED <<config, fs, sessions, pc, request, idx, locals, trace, raised,
                   ncalls, keysA, keysB, tupleA, tupleB>>

PathNext ==
    \E folder \in {BASELINE_FOLDER_NAME, ERROR_FOLDER_NAME},
       path \in Paths, selector \in Selectors : Resolve(folder, path, selector)

PathSpec == PathInit /\ [][PathNext]_vars

-----------------------------------------------------------------------------
(* File resolution on its own: two full tuples (kind, browser, display,     *)
(* page path, selector), the page path and the selector any strings over an *)
(* alphabet that holds the "--" of the file name format.                    *)

NameAlphabet == {"a", "--"}

\* A page path or a selector: it is not made of dashes alone.
Names ==
    {k \in UNION {[1..n -> NameAlphabet] : n \in 1..MaxNameLen} :
        \E i \in DOMAIN k : k[i] # "--"}

Tuples ==
    [folder : {BASELINE_FOLDER_NAME, ERROR_FOLDER_NAME},
     browser_name : {CHROME}, display_name : {DisplayKeys[1]},
     path : Names, selector : Names]

FileInit ==
    /\ displays = <<DisplayKeys[1]>>
    /\ browsers = <<CHROME>>
    /\ browser_settings = UsableSettings(browsers)
    /\ ini = NoIni
    /\ loaded = "ok"
    /\ make_baseline_screenshots = TRUE
    /\ threshold = 0
    /\ dirs = {}
    /\ files = <<>>
    /\ InitCall
    /\ keysA = <<CHROME, DisplayKeys[1]>>
    /\ keysB = <<CHROME, DisplayKeys[1]>>
    /\ resolved = <<>>
    /\ tupleA \in Tuples
    /\ tupleB \in Tuples

\* The file assertScreenshot builds from a tuple.
tuple_file(t) ==
    artifact_file(t.folder, <<t.browser_name, t.display_name>>, t.path, t.selector)

ResolveFiles ==
    /\ resolved = <<>>
    /\ resolved' = <<tuple_file(tupleA), tuple_file(tupleB)>>
    /\ UNCHANGED <<config, fs, sessions, pc, request, idx, locals, trace, raised,
                   ncalls, keysA, keysB, tupleA, tupleB>>

FileNext == ResolveFiles

FileSpec == FileInit /\ [][FileNext]_vars

-----------------------------------------------------------------------------
(* Vocabulary of the properties *)

\* The last assertScreenshot call has returned or raised.
CallEnded == pc = "idle" /\ ncalls > 0

\* The call in progress (or last ended) performed op on cell i.
Did(op, i) == \E k \in DOMAIN trace : trace[k] = [op |-> op, cell |-> i]

\* Cell i was taken up by the call in progress (or last ended).
Processed(i) == \E k \in DOMAIN trace : trace[k].cell = i

\* The processing of every cell taken up so far has ended.
BetweenCells == pc \in {"next", "idle"}

Failures == {"InvalidBrowserException", "AssertScreenshotException",
             "MissingBaselineScreenshotException", "NoSuchElementException",
             "IOError", "OSError"}

\* The tree of error artifacts.
ErrorTree ==
    {loc \in dirs \cup DOMAIN files :
        Len(loc) >= 2 /\ loc[1] = screenshot_dir /\ loc[2] = ERROR_FOLDER_NAME}

\* The documented layout:
\* {screenshot_dir}/{baseline|errors}/{browser_key}/{display_key}/{page_path}--{selector}.png
LayoutPath(folder, browser_key, display_key, page_path, selector) ==
    screenshot_dir \o <<"/">> \o folder \o <<"/">> \o browser_key \o <<"/">>
        \o display_key \o <<"/">> \o page_path \o <<"--">> \o selector \o <<".png">>

\* The layout path of the cell in progress, for the request in progress.
CellLayoutPath(folder) ==
    LayoutPath(folder, Matrix[idx].browser_name, Matrix[idx].display_name,
               request.path, request.selector)

-----------------------------------------------------------------------------------------------------------------------------------------------------
\* Every key has its section and every required field is present and parses.
IniValid(f) ==
    /\ f.globals = "ok"
    /\ f.make_baseline_screenshots \in {"true", "false"}
    /\ f.browser.present
    /\ f.browser.options_module = "ok"
    /\ f.browser.arguments = "ok"
    /\ f.browser.mobile \in {"true", "false"}
    /\ f.display.present
    /\ f.display.width = "ok"
    /\ f.display.height = "ok"
    /\ f.display.pixel_ratio = "ok"

\* C14: when a listed key has no section, or a required field of a section is
\* missing or unparseable, setUpClass fails with a configuration error before
\* any session is opened, and no assertScreenshot call ever runs.
C14_InvalidConfigNeverRuns ==
    ~IniValid(ini) =>
        /\ loaded # "ok"
        /\ ncalls = 0
        /\ sessions = <<>>

-----------------------------------------------------------------------------
\* The string sub occurs in the string s.
Contains(s, sub) ==
    \E i \in 0..(Len(s) - Len(sub)) : SubSeq(s, i + 1, i + Len(sub)) = sub

\* The exceptions assertScreenshot raises itself.
OwnFailures ==
    {"InvalidBrowserException", "AssertScreenshotException",
     "MissingBaselineScreenshotException"}

\* C15: every failure raised by assertScreenshot names, in its message, the
\* selector, the page path, the browser key and the display key of the failing
\* cell, and a threshold failure carries the numeric distance as well.
C15_FailureCarriesContext ==
    raised.type \in OwnFailures =>
        /\ Contains(raised.str, request.selector)
        /\ Contains(raised.str, request.path)
        /\ Contains(raised.str, Matrix[idx].browser_name)
        /\ Contains(raised.str, Matrix[idx].display_name)
        /\ (Did("distance", idx) =>
                raised.num = abs(get_distance(screenshot, baseline_screenshot)))

-----------------------------------------------------------------------------
\* C16: when the selector matches no element, the step that looked for it ends
\* the cell with NoSuchElementException raised to the caller: no screenshot is
\* taken, no directory or file is created or written, nothing is compared, and
\* nothing more is done for that cell (the next step is a new call).
C16_ElementNotFoundAbortsCell ==
    [][/\ (pc = "get" /\ raised' # NoExc) =>
            /\ raised' = NoSuchElementException
            /\ pc' = "idle"
            /\ trace' = Append(trace, Event("get"))
            /\ UNCHANGED <<fs, locals, sessions, idx>>
       /\ raised = NoSuchElementException =>
            /\ ncalls' = ncalls + 1
            /\ trace' = <<>>]_vars

C16_Witness ==
    /\ raised = NoSuchElementException
    /\ idx > 1
    /\ ~Did("screenshot", idx)
    /\ Did("screenshot", idx - 1)

-----------------------------------------------------------------------------
\* Everything below {screenshot_dir}/errors, directories included.
BelowErrors ==
    {loc \in dirs \cup DOMAIN files :
        Len(loc) >= 3 /\ loc[1] = screenshot_dir /\ loc[2] = ERROR_FOLDER_NAME}

\* The error artifacts on disk.
ErrorFiles ==
    {loc \in DOMAIN files :
        Len(loc) >= 2 /\ loc[1] = screenshot_dir /\ loc[2] = ERROR_FOLDER_NAME}

\* A comparison call has ended, the threshold is 0 and every cell has the
\* baseline of this request on disk, written by an earlier baseline call.
RoundTripDone ==
    /\ CallEnded
    /\ trace # <<>>
    /\ ~make_baseline_screenshots
    /\ threshold = 0
    /\ \A i \in DOMAIN Matrix :
            Location(artifact_file(BASELINE_FOLDER_NAME,
                        <<Matrix[i].browser_name, Matrix[i].display_name>>,
                        request.path, request.selector)) \in DOMAIN files

\* C17: after a baseline call wrote the baselines, a comparison call with the
\* same selector and page path, identical captures and threshold 0 returns
\* normally for every cell and leaves the errors/ tree empty.
C17_RoundTripLeavesErrorsEmpty ==
    RoundTripDone =>
        /\ raised = NoExc
        /\ \A i \in DOMAIN Matrix : Did("distance", i)
        /\ BelowErrors = {}

\* C17, amended: such a comparison call returns normally for every cell and
\* writes no error artifact; what it does leave under errors/ is the (empty)
\* directory errors/{browser_key}/{display_key} of every cell.
C17_RoundTripWritesNoErrorFile ==
    RoundTripDone =>
        /\ raised = NoExc
        /\ \A i \in DOMAIN Matrix : Did("distance", i)
        /\ ErrorFiles = {}
        /\ BelowErrors =
              {loc \in UNION {Prefixes(Location(make_screenshot_path(
                                  ERROR_FOLDER_NAME, Matrix[i].browser_name,
                                  Matrix[i].display_name))) : i \in DOMAIN Matrix} :
                  Len(loc) >= 3}

C17_Witness ==
    /\ RoundTripDone
    /\ Len(Matrix) = 2
    /\ raised = NoExc

-----------------------------------------------------------------------------
\* C18: directory creation is create-if-absent under concurrent creators: an
\* execution never fails because another one created the baseline or error
\* directory between its existence check and its creation.
C18_NoCreatorFailsOnRace ==
    raised.type # "OSError"

-----------------------------------------------------------------------------
\* The baseline images on disk, each with its content.
BaselineImages ==
    [loc \in {l \in DOMAIN files :
                Len(l) >= 2 /\ l[1] = screenshot_dir /\ l[2] = BASELINE_FOLDER_NAME}
        |-> files[loc]]

\* C19: in comparison mode no step of any call creates, overwrites or deletes
\* a baseline image: whatever a cell ends in, the baseline files and their
\* contents are what they were.
C19_ComparisonKeepsBaselines ==
    [][~make_baseline_screenshots => BaselineImages' = BaselineImages]_vars

C19_Witness ==
    /\ ~make_baseline_screenshots
    /\ ncalls = 2
    /\ raised.type = "AssertScreenshotException"
    /\ ErrorFiles # {}
    /\ DOMAIN BaselineImages # {}

-----------------------------------------------------------------------------
\* C20: within a call a session is requested only when no cell has failed and
\* every cell before it in the enumeration has been processed to the end and
\* its session closed; it is one session, for the next cell of the enumeration.
C20_SessionsLazyAndSequential ==
    [][Len(sessions') > Len(sessions) =>
        /\ sessions' = Append(sessions, sessions'[Len(sessions')])
        /\ sessions'[Len(sessions')].call = ncalls
        /\ sessions'[Len(sessions')].cell = idx + 1
        /\ raised = NoExc
        /\ \A c \in 1..idx : Did("open", c) /\ Did("close", c)
        /\ \A i \in DOMAIN sessions :
              sessions[i].call = ncalls =>
                  sessions[i].cell <= idx /\ sessions[i].closes = 1]_vars

C20_Witness ==
    /\ pc = "get"
    /\ idx = 2
    /\ Cardinality({i \in DOMAIN sessions : sessions[i].call = ncalls}) = 2
    /\ ncalls = 2

-----
(* Properties *)

\* C1: every session assertScreenshot opened is closed exactly once by the
\* time the processing of its cell ends, whatever the exit path of the cell.
C1_SessionClosedOnEveryExit ==
    BetweenCells => \A i \in DOMAIN sessions : sessions[i].closes = 1

C3_UnsupportedBeforeSession ==
    /\ \A i \in DOMAIN sessions :
            Matrix[sessions[i].cell].browser_name \in SupportedBrowsers
    /\ \A k \in DOMAIN trace :
            Matrix[trace[k].cell].browser_name \notin SupportedBrowsers
                => /\ trace[k].op = "invalid"
                   /\ k = Len(trace)
                   /\ pc = "idle"
                   /\ raised = InvalidBrowserException(Matrix[trace[k].cell].browser_name)
    /\ raised.type = "InvalidBrowserException"
            => /\ raised.str = Matrix[idx].browser_name
               /\ raised.str \notin SupportedBrowsers
               /\ \A i \in DOMAIN sessions :
                    sessions[i].call = ncalls => sessions[i].cell < idx
                                                 /\ sessions[i].closes = 1

C3_Witness ==
    /\ raised.type = "InvalidBrowserException"
    /\ idx > 1
    /\ \E i \in DOMAIN sessions : sessions[i].call = ncalls

\* C4: in baseline mode, with every browser supported and every element found,
\* a call raises no threshold, structural or missing-baseline failure, leaves
\* a baseline artifact for every cell and leaves the error tree untouched.
C4_BaselineModeWritesEveryCell ==
    ( /\ CallEnded
      /\ make_baseline_screenshots
      /\ \A i \in DOMAIN Matrix : Matrix[i].browser_name \in SupportedBrowsers
      /\ raised.type # "NoSuchElementException" )
    => /\ raised.type \notin {"AssertScreenshotException",
                              "MissingBaselineScreenshotException"}
       /\ \A i \in DOMAIN Matrix :
            Location(artifact_file(BASELINE_FOLDER_NAME,
                        <<Matrix[i].browser_name, Matrix[i].display_name>>,
                        request.path, request.selector)) \in DOMAIN files
       /\ ErrorTree = {}

\* C5: in comparison mode, when the baseline has been read and the absolute
\* value of the distance is at most the threshold, the comparison step raises
\* nothing, writes nothing and hands the cell on to driver.close().
C5_WithinThresholdPasses ==
    [][ ( /\ pc = "diff"
          /\ ~Incompatible(screenshot, baseline_screenshot)
          /\ abs(get_distance(screenshot, baseline_screenshot)) <= threshold )
        => ( /\ pc' = "close"
             /\ raised' = NoExc
             /\ files' = files
             /\ dirs' = dirs ) ]_vars

C5_Witness ==
    /\ pc = "close"
    /\ ~make_baseline_screenshots
    /\ Did("distance", idx)
    /\ threshold > 0
    /\ abs(get_distance(screenshot, baseline_screenshot)) = threshold

\* C6: in comparison mode, when the baseline has been read and the distance
\* exceeds the threshold, the call ends in AssertScreenshotException carrying
\* the distance, and the captured image is in the file at the cell's error path.
C6_ThresholdFailureSavesError ==
    ( /\ pc = "idle"
      /\ Did("diff", idx)
      /\ ~Incompatible(screenshot, baseline_screenshot)
      /\ abs(get_distance(screenshot, baseline_screenshot)) > threshold )
    => /\ raised = AssertScreenshotException(<<>>,
                        abs(get_distance(screenshot, baseline_screenshot)))
       /\ Location(error_file) \in DOMAIN files
       /\ files[Location(error_file)] = screenshot

\* C7: in comparison mode, when the baseline file of the cell is absent or
\* unreadable, loading it raises MissingBaselineScreenshotException: the call
\* ends there, nothing is compared and nothing is written.
C7_MissingBaseline ==
    [][ ( /\ pc = "mode"
          /\ ~make_baseline_screenshots
          /\ \/ Location(baseline_file) \notin DOMAIN files
             \/ files[Location(baseline_file)] = Corrupt )
        => ( /\ pc' = "idle"
             /\ raised' = MissingBaselineScreenshotException
             /\ trace' = trace
             /\ files' = files
             /\ dirs' = dirs ) ]_vars

C7_Witness ==
    /\ raised = MissingBaselineScreenshotException
    /\ pc = "idle"
    /\ ~Did("diff", idx)
    /\ Location(baseline_file) \in DOMAIN files
    /\ files[Location(baseline_file)] = Corrupt

\* C8: in comparison mode, when the images are structurally incompatible, the
\* call ends in AssertScreenshotException, the captured image is in the file
\* at the cell's error path, and no distance was computed.
C8_StructuralFailureSavesError ==
    ( /\ pc = "idle"
      /\ Did("diff", idx)
      /\ Incompatible(screenshot, baseline_screenshot) )
    => /\ raised = AssertScreenshotException(error_file, 0)
       /\ Location(error_file) \in DOMAIN files
       /\ files[Location(error_file)] = screenshot
       /\ ~Did("distance", idx)

\* C9: at most one session is open at any time, over any sequence of calls.
C9_AtMostOneOpenSession == Cardinality(OpenSessions) <= 1

\* C11: no two distinct (kind, browser, display, page path, selector) tuples
\* resolve to the same artifact path; for one cell, two distinct (page path,
\* selector) pairs never give the same file name.
C11_DistinctTuplesDistinctFiles ==
    (Len(resolved) = 2 /\ tupleA # tupleB) => resolved[1] # resolved[2]

\* C12: every artifact assertScreenshot writes or reads is at the layout path
\* of (kind, cell in progress, request in progress), whatever the position of
\* the cell and whatever earlier cells and calls did: a file that changes is
\* the baseline (baseline mode) or error (comparison mode) file of the cell and
\* receives the capture, the baseline that is read is the cell's baseline file,
\* and a path carried by a failure is that path, character for character.
C12_ArtifactPathIsLayout ==
    [][ /\ \A loc \in DOMAIN files' :
                (loc \notin DOMAIN files \/ files'[loc] # files[loc])
                    => /\ loc = Location(CellLayoutPath(
                                    IF make_baseline_screenshots
                                    THEN BASELINE_FOLDER_NAME ELSE ERROR_FOLDER_NAME))
                       /\ files'[loc] = screenshot
        /\ (pc = "mode" /\ pc' = "exists_error")
                => /\ Location(CellLayoutPath(BASELINE_FOLDER_NAME)) \in DOMAIN files
                   /\ baseline_screenshot' =
                        files[Location(CellLayoutPath(BASELINE_FOLDER_NAME))]
        /\ (pc = "mode" /\ raised'.type = "IOError")
                => raised'.str = CellLayoutPath(BASELINE_FOLDER_NAME)
        /\ (pc = "diff" /\ raised'.type = "IOError")
                => raised'.str = CellLayoutPath(ERROR_FOLDER_NAME)
        /\ (pc = "diff" /\ raised'.type = "AssertScreenshotException"
                        /\ Incompatible(screenshot, baseline_screenshot))
                => raised'.str = CellLayoutPath(ERROR_FOLDER_NAME) ]_vars

\* The example of the layout: '#q' on '/home', cell chrome/xs, second call.
C12_Witness ==
    /\ pc = "close"
    /\ ncalls = 2
    /\ Did("save_baseline", idx)
    /\ request = [selector |-> <<"#q">>, path |-> <<"/", "home">>]
    /\ Matrix[idx] = [display_name |-> <<"xs">>, browser_name |-> CHROME]
    /\ <<<<"shots">>, <<"baseline">>, <<"chrome">>, <<"xs">>,
         <<"home", "--", "#q", ".png">>>> \in DOMAIN files

\* C13: a call in which no cell fails has opened exactly one session for each
\* (display, browser) pair of the configured keys, whatever earlier calls did.
C13_FullCrossProduct ==
    (CallEnded /\ raised = NoExc) =>
        LET mine == {i \in DOMAIN sessions : sessions[i].call = ncalls} IN
        /\ \A d \in DOMAIN displays, b \in DOMAIN browsers :
                Cardinality({i \in mine :
                    Matrix[sessions[i].cell] =
                        [display_name |-> displays[d], browser_name |-> browsers[b]]}) = 1
        /\ Cardinality(mine) = Len(displays) * Len(browsers)

\* A second call over a matrix of two cells has returned.
C13_Witness ==
    /\ CallEnded
    /\ raised = NoExc
    /\ ncalls = 2
    /\ Len(displays) * Len(browsers) = 2

\* C10: for the same kind, page path and selector, two cells that differ in
\* browser key or display key never resolve to the same artifact path: the
\* two paths never name the same file.
C10_DistinctCellsDistinctPaths ==
    (Len(resolved) = 2 /\ keysA # keysB)
        => Location(resolved[1]) # Location(resolved[2])

====
